---- MODULE Spec2Model ----
(***************************************************************************)
(* A model of the PR review bot: the diff parser (core/diff_parser.py),    *)
(* the finding reconciler of the AI reviewer (core/reviewers/              *)
(* code_reviewer.py), the exclusion policy (core/reviewers/                *)
(* base_reviewer.py) and the orchestrator (main.py).                       *)
(*                                                                         *)
(* Text is modelled as sequences of one-character strings.  A diff line is *)
(* a record [prefix, rest]: prefix is the recognised marker the line       *)
(* starts with ("diff --git", "--- a/", "+++ b/", "@@") or "" when it      *)
(* starts with none of them, and rest is the text after the prefix, so     *)
(* line[6:] of a "--- a/" or "+++ b/" line is its rest.                    *)
(***************************************************************************)
EXTENDS Integers, Sequences, FiniteSets, TLC

VARIABLES
    \* ---- DiffParser.parse_diff, one loop iteration per step
    parse_pc,       \* "idle" | "loop" | "done"
    diff_str,       \* the input, as the sequence diff_str.splitlines()
    line_idx,       \* number of lines the for loop has consumed
    files,          \* the list of closed FileChange objects
    current_file,   \* None or the dict {'path', 'hunks'}
    current_hunk,   \* None or a reference to a hunk dict
    \* ---- AICodeReviewer._create_comment, one loop iteration per step
    cc_pc,          \* "idle" | "for" | "iterated" | "returned" | "raised"
    source_length,  \* hunk.source_length, the hunk's line count
    review,         \* the loop variable: the finding of the last iteration
    cc_outcome,     \* what the last iteration did with it
    cc_comments,    \* the local list comments
    cc_result,      \* the list the call returned
    cc_alone,       \* what the findings seen so far deliver one by one
    cc_count,       \* number of findings the loop has consumed
    \* ---- main(), one collaborator call or loop iteration per step
    pc,             \* where main() is
    env,            \* the environment variables that are set
    config,         \* load_config(): enabled_reviewers, exclude_patterns
    diff,           \* what get_diff returned
    parsed_files,   \* what parse_diff returned
    reviewers,      \* what get_reviewers returned
    file_idx,       \* position of the loop over parsed_files
    rev_idx,        \* position of the loop over reviewers
    hunk_idx,       \* position of review_file's loop over hunks
    completion,     \* the collaborator's behaviour for the last hunk sent
    requests,       \* the completion requests made for that hunk
    comments,       \* review_file's local list comments
    rf_origin,      \* for each of them: <<hunk, finding>> it comes from
    all_comments,   \* main's aggregate
    origin,         \* for each: <<file, reviewer, hunk, finding>>
    asked,          \* the paths can_review_file was called with
    calls,          \* the review_file calls, in order
    post_calls,     \* the comment lists create_review_comment was given
    called,         \* the collaborators called so far
    exit_status,    \* -1 while running, then the process exit status
    outcome,        \* how the run ended
    raised,         \* the call whose exception main's handler caught
    \* ---- a function of the reviewer applied to drawn arguments
    fn_pc,          \* "idle" | "args"
    fn_args,        \* the arguments
    fn_results      \* what the calls made so far returned

parse_vars == <<parse_pc, diff_str, line_idx, files, current_file, current_hunk>>

cc_vars == <<cc_pc, source_length, review, cc_outcome, cc_comments, cc_result,
             cc_alone, cc_count>>

main_vars == <<pc, env, config, diff, parsed_files, reviewers, file_idx, rev_idx,
               hunk_idx, completion, requests, comments, rf_origin,
               all_comments, origin, asked, calls, post_calls, called,
               exit_status, outcome, raised>>

fn_vars == <<fn_pc, fn_args, fn_results>>

vars == <<parse_vars, cc_vars, main_vars, fn_vars>>

(***************************************************************************)
(* Bounds of the model.                                                    *)
(***************************************************************************)
MaxDiffLen == 5
MaxHunkLen == 2
MaxFindings == 2
MaxFiles == 2
MaxCalls == 2

(***************************************************************************)
(* Generic helpers.                                                        *)
(***************************************************************************)
None == [none |-> TRUE]

BoundedSeq(S, n) == UNION {[1..k -> S] : k \in 0..n}

(***************************************************************************)
(* Diff lines.                                                             *)
(***************************************************************************)
DIFF_GIT == "diff --git"
OLD_PATH == "--- a/"
NEW_PATH == "+++ b/"
HUNK_HDR == "@@"
BODY == ""

Line(prefix, rest) == [prefix |-> prefix, rest |-> rest]

\* line.startswith(marker), for the four markers parse_diff tests
StartsWith(line, marker) == line.prefix = marker

\* The lines the parser specification draws its inputs from.
LineAlphabet ==
    { Line(DIFF_GIT, <<" ", "x">>),
      Line(OLD_PATH, <<"o">>),
      Line(NEW_PATH, <<"n">>),
      Line(HUNK_HDR, <<" ", "1">>),
      Line(BODY, <<"+", "c">>),
      Line(BODY, <<"i", "n", "d", "e", "x">>) }

(***************************************************************************)
(* DiffParser.parse_diff.  The parser state is the triple of locals        *)
(* (files, current_file, current_hunk).  current_hunk is a reference: the  *)
(* hunk dict it names is shared with the hunks list of the file that owns  *)
(* it, also after that file was wrapped in a FileChange and appended to    *)
(* files.  The reference is [f, h]: hunk h of file f, where file           *)
(* Len(files) + 1 is current_file.                                         *)
(***************************************************************************)
ParseInit == [files |-> <<>>, current_file |-> None, current_hunk |-> None]

FileChange(path, hunks) == [path |-> path, hunks |-> hunks]

AppendToHunk(file, h, line) ==
    [file EXCEPT !.hunks[h].lines = Append(@, line)]

ParseLine(st, line) ==
    IF StartsWith(line, DIFF_GIT)
    THEN [st EXCEPT
            !.files = IF st.current_file # None
                      THEN Append(@, FileChange(st.current_file.path,
                                                st.current_file.hunks))
                      ELSE @,
            !.current_file = [path |-> <<>>, hunks |-> <<>>]]
    ELSE IF StartsWith(line, OLD_PATH)
    THEN IF st.current_file # None
         THEN [st EXCEPT !.current_file.path = line.rest]
         ELSE st
    ELSE IF StartsWith(line, NEW_PATH)
    THEN IF st.current_file # None
         THEN [st EXCEPT !.current_file.path = line.rest]
         ELSE st
    ELSE IF StartsWith(line, HUNK_HDR)
    THEN IF st.current_file # None
         THEN [st EXCEPT
                 !.current_file.hunks =
                     Append(@, [header |-> line, lines |-> <<>>]),
                 !.current_hunk =
                     [f |-> Len(st.files) + 1,
                      h |-> Len(st.current_file.hunks) + 1]]
         ELSE st
    ELSE IF st.current_hunk # None
    THEN IF st.current_hunk.f <= Len(st.files)
         THEN [st EXCEPT
                 !.files[st.current_hunk.f] =
                     AppendToHunk(@, st.current_hunk.h, line)]
         ELSE [st EXCEPT
                 !.current_file =
                     AppendToHunk(@, st.current_hunk.h, line)]
    ELSE st

\* the tail that forgets the file still open
ParseEnd_DropsLast(st) == st.files

\* the tail that wraps a file also when none was opened
ParseEnd_Unguarded(st) ==
    IF st.current_file # None
    THEN Append(st.files,
                FileChange(st.current_file.path, st.current_file.hunks))
    ELSE Append(st.files, FileChange(<<>>, <<>>))

\* if current_file: files.append(...); return files
ParseEnd(st) ==
    IF st.current_file # None
    THEN Append(st.files,
                FileChange(st.current_file.path, st.current_file.hunks))
    ELSE st.files

RECURSIVE ParseLines(_, _, _)
ParseLines(st, lines, i) ==
    IF i > Len(lines) THEN st
    ELSE ParseLines(ParseLine(st, lines[i]), lines, i + 1)

\* parse_diff as a function of its input
ParseDiff(lines) == ParseEnd(ParseLines(ParseInit, lines, 1))

(***************************************************************************)
(* Values of a completion result.  A JSON value (or an attribute of a      *)
(* parsed FileReviews object) is [t, i, s]: its type tag, its number when  *)
(* it is an int and its characters when it is a str.  "missing" is a key   *)
(* the dict does not hold.                                                 *)
(***************************************************************************)
Missing == [t |-> "missing", i |-> 0, s |-> <<>>]
Null == [t |-> "null", i |-> 0, s |-> <<>>]
IntV(n) == [t |-> "int", i |-> n, s |-> <<>>]
StrV(s) == [t |-> "str", i |-> 0, s |-> s]

\* A finding: shape "model" is a HunkReview object, "dict" a JSON object,
\* "other" a JSON value that is neither (a string, a number, null).
Finding(shape, ln, rc, pr, it) ==
    [shape |-> shape, lineNumber |-> ln, reviewComment |-> rc,
     priority |-> pr, issueType |-> it]

Digits == <<"0", "1", "2", "3", "4", "5", "6", "7", "8", "9">>

IsDigit(c) == \E d \in 1..10 : Digits[d] = c

DigitValue(c) == (CHOOSE d \in 1..10 : Digits[d] = c) - 1

RECURSIVE DecimalValue(_, _)
DecimalValue(s, acc) ==
    IF s = <<>> THEN acc
    ELSE DecimalValue(Tail(s), 10 * acc + DigitValue(Head(s)))

\* int(x): [exc, value]
PyInt(v) ==
    IF v.t = "int" THEN [exc |-> "", value |-> v.i]
    ELSE IF v.t = "str"
    THEN IF v.s # <<>> /\ \A k \in 1..Len(v.s) : IsDigit(v.s[k])
         THEN [exc |-> "", value |-> DecimalValue(v.s, 0)]
         ELSE [exc |-> "ValueError", value |-> 0]
    ELSE [exc |-> "TypeError", value |-> 0]

\* the test that takes an empty string for a value
Truthy_EmptyStringToo(v) ==
    IF v.t = "int" THEN v.i # 0
    ELSE v.t = "str"

\* bool(x), as `not x` reads it
Truthy(v) ==
    IF v.t = "int" THEN v.i # 0
    ELSE IF v.t = "str" THEN v.s # <<>>
    ELSE FALSE

\* dict.get(key, default) and getattr(obj, name, default)
GetOr(v, default) == IF v.t = "missing" THEN default ELSE v

LowerChar(c) ==
    CASE c = "B" -> "b"
      [] c = "S" -> "s"
      [] c = "U" -> "u"
      [] c = "G" -> "g"
      [] OTHER -> c

\* str.lower()
Lower(s) == [k \in 1..Len(s) |-> LowerChar(s[k])]

(***************************************************************************)
(* AICodeReviewer._format_comment.  Emoji are named by their code points.  *)
(* The result is header + review_comment; the header is one of two fixed   *)
(* templates filled with an emoji and a colour tag.                        *)
(***************************************************************************)
T_bug == <<"b", "u", "g">>
T_security == <<"s", "e", "c", "u", "r", "i", "t", "y">>
T_performance == <<"p", "e", "r", "f", "o", "r", "m", "a", "n", "c", "e">>
T_style == <<"s", "t", "y", "l", "e">>
T_documentation ==
    <<"d", "o", "c", "u", "m", "e", "n", "t", "a", "t", "i", "o", "n">>
T_maintenance == <<"m", "a", "i", "n", "t", "e", "n", "a", "n", "c", "e">>

KnownTypes ==
    {T_bug, T_security, T_performance, T_style, T_documentation,
     T_maintenance, <<>>}

emoji_map(t) ==
    CASE t = T_bug -> "U+1F41B"
      [] t = T_security -> "U+1F512"
      [] t = T_performance -> "U+26A1"
      [] t = T_style -> "U+1F3A8"
      [] t = T_documentation -> "U+1F4DD"
      [] t = T_maintenance -> "U+1F527"
      [] t = <<>> -> "U+2757"

color_tags(priority, t) ==
    IF priority = 1
    THEN CASE t = T_bug -> "U+1F534 CRITICAL BUG"
           [] t = T_security -> "U+1F534 SECURITY VULNERABILITY"
           [] t = T_performance -> "U+1F534 CRITICAL PERFORMANCE"
           [] t = T_style -> "U+1F534 CRITICAL STYLE ISSUE"
           [] t = T_documentation -> "U+1F534 CRITICAL DOCUMENTATION"
           [] t = T_maintenance -> "U+1F534 CRITICAL MAINTENANCE"
           [] t = <<>> -> "U+1F534 CRITICAL ISSUE"
    ELSE CASE t = T_bug -> "U+1F7E0 MINOR BUG"
           [] t = T_security -> "U+1F7E0 SECURITY IMPROVEMENT"
           [] t = T_performance -> "U+1F7E0 PERFORMANCE IMPROVEMENT"
           [] t = T_style -> "U+1F7E0 STYLE SUGGESTION"
           [] t = T_documentation -> "U+1F7E0 DOCUMENTATION SUGGESTION"
           [] t = T_maintenance -> "U+1F7E0 MAINTENANCE IMPROVEMENT"
           [] t = <<>> -> "U+1F7E0 IMPROVEMENT SUGGESTION"

\* the keys of color_tags
PriorityKeys == {1, 2}

\* the lookup that takes an unknown category for a bug
TypeOrDefault_BugForUnknown(t) == IF t \in KnownTypes THEN t ELSE T_bug

\* dict.get(key, d[""])
TypeOrDefault(t) == IF t \in KnownTypes THEN t ELSE <<>>

\* [exc, body]; issue_type.lower() is evaluated before color_tags[priority]
FormatComment(review_comment, priority, issue_type) ==
    IF issue_type.t # "str"
    THEN [exc |-> "AttributeError", body |-> None]
    ELSE IF ~(priority.t = "int" /\ priority.i \in PriorityKeys)
    THEN [exc |-> "KeyError", body |-> None]
    ELSE LET issue_type_lower == Lower(issue_type.s)
             emoji == emoji_map(TypeOrDefault(issue_type_lower))
             color_tag ==
                 color_tags(priority.i, TypeOrDefault(issue_type_lower))
             header ==
                 [template |-> IF priority.i = 1 THEN "details open h3"
                               ELSE "details h4",
                  emoji |-> emoji, color_tag |-> color_tag]
         IN  [exc |-> "",
              body |-> [header |-> header, text |-> review_comment.s]]

(***************************************************************************)
(* AICodeReviewer._create_comment: the body of its for loop, for one       *)
(* finding.  outcome is "comment" (appended), "skip" (continue), "caught"  *)
(* (the except clause of the loop body took a KeyError, TypeError or       *)
(* ValueError) or "raise" (another exception left the function).           *)
(***************************************************************************)
\* the dispatch that takes every finding for a dictionary
HasReviewAttrs_Never(r) == FALSE

\* hasattr(review, 'lineNumber') and hasattr(review, 'reviewComment')
HasReviewAttrs(r) == r.shape = "model"

\* the range check without its upper bound
InHunkRange_NoUpperBound(line_number, length) == ~(line_number < 1)

\* the negation of: line_number < 1 or line_number > hunk.source_length
InHunkRange(line_number, length) ==
    ~(line_number < 1 \/ line_number > length)

\* the except clause of the loop body
Caught(exc) == exc \in {"KeyError", "TypeError", "ValueError"}

Outcome(o, exc, comment) == [outcome |-> o, exc |-> exc, comment |-> comment]

Failed(exc) ==
    IF Caught(exc) THEN Outcome("caught", exc, None)
    ELSE Outcome("raise", exc, None)

ReconcileOne(file_path, length, r) ==
    IF ~HasReviewAttrs(r) /\ r.shape # "dict"
    THEN Failed("AttributeError")
    ELSE
    LET n == PyInt(IF HasReviewAttrs(r) THEN r.lineNumber
                   ELSE GetOr(r.lineNumber, IntV(0)))
        review_comment ==
            IF HasReviewAttrs(r) THEN r.reviewComment
            ELSE GetOr(r.reviewComment, StrV(<<>>))
        priority == GetOr(r.priority, IntV(2))
        issue_type == GetOr(r.issueType, StrV(<<>>))
        formatted == FormatComment(review_comment, priority, issue_type)
    IN  IF n.exc # "" THEN Failed(n.exc)
        ELSE IF n.value = 0 \/ ~Truthy(review_comment)
        THEN Outcome("skip", "", None)
        ELSE IF formatted.exc # "" THEN Failed(formatted.exc)
        ELSE IF ~InHunkRange(n.value, length)
        THEN Outcome("skip", "", None)
        ELSE Outcome("comment", "",
                     [body |-> formatted.body, path |-> file_path,
                      position |-> n.value])

\* the whole call: [raised, kept], kept the comments in order, each with the
\* index of the finding it comes from
RECURSIVE CreateCommentFrom(_, _, _, _, _)
CreateCommentFrom(file_path, length, reviews, k, kept) ==
    IF k > Len(reviews) THEN [raised |-> FALSE, kept |-> kept]
    ELSE LET o == ReconcileOne(file_path, length, reviews[k]) IN
         IF o.outcome = "raise" THEN [raised |-> TRUE, kept |-> <<>>]
         ELSE CreateCommentFrom(
                  file_path, length, reviews, k + 1,
                  IF o.outcome = "comment"
                  THEN Append(kept, [finding |-> k, comment |-> o.comment])
                  ELSE kept)

CreateComment(file_path, length, reviews) ==
    CreateCommentFrom(file_path, length, reviews, 1, <<>>)

(***************************************************************************)
(* BaseReviewer.can_review_file.  fnmatch.fnmatch(name, pat) on POSIX      *)
(* (normcase is the identity), for patterns built from literal             *)
(* characters, '*' (any run of characters, '/' included) and '?' (any one  *)
(* character).  The patterns of the model hold no '['.                     *)
(***************************************************************************)
RECURSIVE Fnmatch(_, _)
Fnmatch(name, pat) ==
    IF pat = <<>> THEN name = <<>>
    ELSE IF Head(pat) = "*"
    THEN \/ Fnmatch(name, Tail(pat))
         \/ name # <<>> /\ Fnmatch(Tail(name), pat)
    ELSE IF Head(pat) = "?"
    THEN name # <<>> /\ Fnmatch(Tail(name), Tail(pat))
    ELSE /\ name # <<>>
         /\ Head(name) = Head(pat)
         /\ Fnmatch(Tail(name), Tail(pat))

ShouldExclude(file_path, exclude_patterns) ==
    \E k \in 1..Len(exclude_patterns) : Fnmatch(file_path, exclude_patterns[k])

\* the policy that looks at the first pattern only
CanReviewFile_FirstPatternOnly(file_path, exclude_patterns) ==
    exclude_patterns = <<>> \/ ~Fnmatch(file_path, exclude_patterns[1])

CanReviewFile(file_path, exclude_patterns) ==
    ~ShouldExclude(file_path, exclude_patterns)

(***************************************************************************)
(* AICodeReviewer._get_openai_review.  The completion collaborator's       *)
(* behaviour for one hunk is [parse, create]: what the structured request  *)
(* (client.beta.chat.completions.parse) does, and what the JSON-mode       *)
(* request (client.chat.completions.create) does if it is made.            *)
(*   parse.kind:  "reviews" (message.parsed.reviews is parse.reviews),     *)
(*                "parsed_none" (message.parsed is None), "AttributeError",*)
(*                "ImportError", "error" (any other exception: transport,  *)
(*                timeout)                                                 *)
(*   create.kind: "error", "unparsable" (json.loads raises), "json"        *)
(*                (json.loads returns create.value)                        *)
(* A JSON value is [t, reviews]: its type and, for an object, the value    *)
(* under 'reviews', itself [t, items].                                     *)
(***************************************************************************)
ReviewsValue(t, items) == [t |-> t, items |-> items]

JsonValue(t, reviews) == [t |-> t, reviews |-> reviews]

\* {"reviews": items}
ReviewsDict(items) == JsonValue("dict", ReviewsValue("list", items))

Completion(parse, create) == [parse |-> parse, create |-> create]

ParseGives(items) == [kind |-> "reviews", reviews |-> items]

ParseFails(kind) == [kind |-> kind, reviews |-> <<>>]

CreateGives(value) == [kind |-> "json", value |-> value]

CreateFails(kind) == [kind |-> kind, value |-> ReviewsDict(<<>>)]

\* except (AttributeError, ImportError): a None parsed payload raises
\* AttributeError on .reviews
FallsBack(parse) ==
    parse.kind \in {"parsed_none", "AttributeError", "ImportError"}

\* the handler that returns None where the code returns {"reviews": []}
GetOpenAIReview_NoneOnError(c) ==
    IF c.parse.kind = "reviews" THEN ReviewsDict(c.parse.reviews)
    ELSE IF FallsBack(c.parse) /\ c.create.kind = "json" THEN c.create.value
    ELSE JsonValue("null", ReviewsValue("missing", <<>>))

\* the dict (or other JSON value) _get_openai_review returns
GetOpenAIReview(c) ==
    IF c.parse.kind = "reviews" THEN ReviewsDict(c.parse.reviews)
    ELSE IF FallsBack(c.parse)
    THEN IF c.create.kind = "json" THEN c.create.value
         ELSE ReviewsDict(<<>>)
    ELSE ReviewsDict(<<>>)

\* the call that asks for free-text JSON after every failure
RequestsMade_RetriesAnyFailure(c) ==
    IF c.parse.kind = "reviews" THEN <<"parse">> ELSE <<"parse", "create">>

\* the completion requests the call makes, in order
RequestsMade(c) ==
    IF FallsBack(c.parse) THEN <<"parse", "create">> ELSE <<"parse">>

(***************************************************************************)
(* AICodeReviewer.review_file: the body of its for loop for one hunk with  *)
(* at least one line, given what _get_openai_review returned.              *)
(* [raised, kept].                                                         *)
(***************************************************************************)
\* len(reviews.get('reviews', [])) raises: reviews is no dict, or the value
\* under 'reviews' has no len()
LenRaises(reviews) ==
    \/ reviews.t # "dict"
    \/ reviews.reviews.t \in {"null", "int"}

\* reviews and reviews.get('reviews')
HasReviews(reviews) ==
    /\ reviews.reviews.t \in {"list", "str"}
    /\ reviews.reviews.items # <<>>

ReviewHunk(file_path, hunk_lines, reviews) ==
    IF LenRaises(reviews) THEN [raised |-> TRUE, kept |-> <<>>]
    ELSE IF HasReviews(reviews)
    THEN CreateComment(file_path, Len(hunk_lines), reviews.reviews.items)
    ELSE [raised |-> FALSE, kept |-> <<>>]

(***************************************************************************)
(* The parser as a state machine: one iteration of the for loop per step,  *)
(* then the tail of the function.                                          *)
(***************************************************************************)
ParserState ==
    [files |-> files, current_file |-> current_file,
     current_hunk |-> current_hunk]

ParseLoop ==
    /\ parse_pc = "loop"
    /\ line_idx < Len(diff_str)
    /\ LET st == ParseLine(ParserState, diff_str[line_idx + 1]) IN
        /\ files' = st.files
        /\ current_file' = st.current_file
        /\ current_hunk' = st.current_hunk
    /\ line_idx' = line_idx + 1
    /\ UNCHANGED <<parse_pc, diff_str>>
    /\ UNCHANGED <<cc_vars, main_vars, fn_vars>>

ParseReturn ==
    /\ parse_pc = "loop"
    /\ line_idx = Len(diff_str)
    /\ files' = ParseEnd(ParserState)
    /\ parse_pc' = "done"
    /\ UNCHANGED <<diff_str, line_idx, current_file, current_hunk>>
    /\ UNCHANGED <<cc_vars, main_vars, fn_vars>>

(***************************************************************************)
(* _create_comment as a state machine: the findings of the batch arrive    *)
(* one per iteration; the batch may end after any of them.                 *)
(***************************************************************************)
PathPy == <<"a", ".", "p", "y">>

LineNumbers ==
    {Missing, Null, StrV(<<"x">>), StrV(<<"2">>)}
        \cup {IntV(n) : n \in (-1)..(MaxHunkLen + 1)}

ReviewComments == {Missing, Null, StrV(<<>>), StrV(<<"t">>)}

Priorities == {Missing, Null, IntV(1), IntV(2), IntV(3)}

IssueTypes == {Missing, Null, StrV(<<"B", "u", "g">>), StrV(<<"z">>)}

\* what FileReviews validation lets through: every field present and typed
ModelFindings ==
    {Finding("model", ln, rc, pr, it) :
        ln \in {v \in LineNumbers : v.t = "int"},
        rc \in {v \in ReviewComments : v.t = "str"},
        pr \in {v \in Priorities : v.t = "int"},
        it \in {v \in IssueTypes : v.t = "str"} \cup {StrV(<<>>)}}

DictFindings ==
    {Finding("dict", ln, rc, pr, it) :
        ln \in LineNumbers, rc \in ReviewComments,
        pr \in Priorities, it \in IssueTypes}

OtherFinding == Finding("other", Missing, Missing, Missing, Missing)

Findings == ModelFindings \cup DictFindings \cup {OtherFinding}

\* what one finding delivers when it is the whole batch
Alone(file_path, length, r) ==
    LET o == ReconcileOne(file_path, length, r) IN
    IF o.outcome = "comment" THEN <<o.comment>> ELSE <<>>

CreateCommentIter ==
    /\ cc_pc = "for"
    /\ cc_count < MaxFindings
    /\ \E r \in Findings :
        LET o == ReconcileOne(PathPy, source_length, r) IN
        /\ review' = r
        /\ cc_outcome' = o.outcome
        /\ cc_comments' = IF o.outcome = "comment"
                          THEN Append(cc_comments, o.comment)
                          ELSE cc_comments
        /\ cc_alone' = cc_alone \o Alone(PathPy, source_length, r)
        /\ cc_pc' = IF o.outcome = "raise" THEN "raised" ELSE "iterated"
    /\ cc_count' = cc_count + 1
    /\ UNCHANGED <<source_length, cc_result>>
    /\ UNCHANGED <<parse_vars, main_vars, fn_vars>>

CreateCommentContinue ==
    /\ cc_pc = "iterated"
    /\ cc_pc' = "for"
    /\ review' = None
    /\ cc_outcome' = ""
    /\ UNCHANGED <<source_length, cc_comments, cc_result, cc_alone, cc_count>>
    /\ UNCHANGED <<parse_vars, main_vars, fn_vars>>

CreateCommentReturn ==
    /\ cc_pc = "for"
    /\ cc_pc' = "returned"
    /\ cc_result' = cc_comments
    /\ UNCHANGED <<source_length, review, cc_outcome, cc_comments, cc_alone,
                   cc_count>>
    /\ UNCHANGED <<parse_vars, main_vars, fn_vars>>

(***************************************************************************)
(* Inputs of a run of main().                                              *)
(***************************************************************************)
PathB == <<"b", ".", "p", "y">>
PathMd == <<"r", ".", "m", "d">>
DevNull == <<"/", "d", "e", "v", "/", "n", "u", "l", "l">>

DiffLine == Line(DIFF_GIT, <<" ", "x">>)
HunkLine == Line(HUNK_HDR, <<" ", "1">>)
AddC == Line(BODY, <<"+", "c">>)
AddD == Line(BODY, <<"+", "d">>)
IndexLine == Line(BODY, <<"i", "n", "d", "e", "x">>)

\* one file section each: the lines from a 'diff --git' marker to the next
Sections ==
    { <<DiffLine, Line(OLD_PATH, PathPy), Line(NEW_PATH, PathPy),
        HunkLine, AddC, AddD>>,
      <<DiffLine, Line(NEW_PATH, PathB), HunkLine, AddC, HunkLine, AddC>>,
      <<DiffLine, Line(NEW_PATH, PathMd), HunkLine, AddC>>,
      <<DiffLine, Line(NEW_PATH, DevNull), HunkLine, AddC>>,
      <<DiffLine, HunkLine, AddC>>,
      <<DiffLine, IndexLine, Line(NEW_PATH, PathB), HunkLine>>,
      <<DiffLine, Line(OLD_PATH, PathB), Line(NEW_PATH, PathPy)>> }

RECURSIVE Concat(_)
Concat(ss) == IF ss = <<>> THEN <<>> ELSE Head(ss) \o Concat(Tail(ss))

\* the diff texts get_diff may return: up to MaxFiles file sections
DiffTexts == {Concat(ss) : ss \in BoundedSeq(Sections, MaxFiles)}

\* config["exclude_patterns"]
ExcludeConfigs ==
    { <<>>,
      << <<"*", ".", "m", "d">>, <<"b", ".", "?", "?">> >> }

\* config["enabled_reviewers"]
EnabledConfigs == { <<>>, <<"lint">>, <<"lint", "ai">>, <<"ai", "ai">> }

RequiredAlways == {"GITHUB_TOKEN"}

\* the list without the deployment name
RequiredForAI_NoDeployment == {"AZURE_OPENAI_ENDPOINT", "AZURE_OPENAI_KEY"}

RequiredForAI ==
    {"AZURE_OPENAI_ENDPOINT", "AZURE_OPENAI_KEY", "AZURE_OPENAI_DEPLOYMENT"}

\* the sets of environment variables that are set
Environments ==
    { RequiredAlways \cup RequiredForAI,
      RequiredAlways,
      RequiredForAI,
      RequiredAlways \cup {"AZURE_OPENAI_ENDPOINT", "AZURE_OPENAI_KEY"} }

ModelF(ln, pr, it) ==
    Finding("model", IntV(ln), StrV(<<"t">>), IntV(pr), StrV(it))

DictF(ln, pr, it) == Finding("dict", ln, StrV(<<"t">>), pr, it)

\* a batch as FileReviews objects and the same batch as JSON objects: one
\* finding beyond a one-line hunk, one with a priority that is no key of
\* color_tags, and two on line 1
ModelBatch ==
    <<ModelF(2, 2, <<"z">>), ModelF(1, 3, <<>>), ModelF(1, 2, <<>>),
      ModelF(1, 1, <<"B", "u", "g">>)>>

DictBatch ==
    <<DictF(IntV(2), IntV(2), StrV(<<"z">>)), DictF(IntV(1), IntV(3), Missing),
      DictF(IntV(1), Missing, Missing),
      DictF(IntV(1), IntV(1), StrV(<<"B", "u", "g">>))>>

\* the behaviours of the completion collaborator the runs draw from
Completions ==
    { Completion(ParseGives(<<>>), CreateFails("error")),
      Completion(ParseGives(ModelBatch), CreateFails("error")),
      Completion(ParseFails("error"), CreateFails("error")),
      Completion(ParseFails("parsed_none"), CreateFails("unparsable")),
      Completion(ParseFails("ImportError"), CreateFails("error")),
      Completion(ParseFails("AttributeError"),
                 CreateGives(ReviewsDict(DictBatch))),
      Completion(ParseFails("AttributeError"),
                 CreateGives(ReviewsDict(
                     <<DictF(IntV(1), Missing, Null)>>))),
      Completion(ParseFails("AttributeError"),
                 CreateGives(JsonValue("dict", ReviewsValue("null", <<>>)))),
      Completion(ParseFails("AttributeError"),
                 CreateGives(JsonValue("dict",
                                       ReviewsValue("missing", <<>>)))),
      Completion(ParseFails("AttributeError"),
                 CreateGives(JsonValue("dict",
                                       ReviewsValue("str", <<OtherFinding>>)))),
      Completion(ParseFails("AttributeError"),
                 CreateGives(JsonValue("list", ReviewsValue("missing", <<>>)))) }

NoCompletion == Completion(ParseFails("none"), CreateFails("none"))

(***************************************************************************)
(* main(): the orchestrator, one step per collaborator call or loop        *)
(* iteration.                                                              *)
(***************************************************************************)
Exit(status, how) ==
    /\ pc' = "exit"
    /\ exit_status' = status
    /\ outcome' = how

\* except Exception in main: print, sys.exit(1)
Fatal(by) == Exit(1, "error") /\ raised' = by

\* load_config and the check of the required environment variables
LoadConfigAndValidate ==
    /\ pc = "start"
    /\ LET required ==
               RequiredAlways \cup
               (IF \E k \in 1..Len(config.enabled_reviewers) :
                       config.enabled_reviewers[k] = "ai"
                THEN RequiredForAI ELSE {})
           missing_vars == required \ env
       IN  IF missing_vars # {}
           THEN Exit(1, "missing_config")
           ELSE /\ pc' = "get_pr_details"
                /\ UNCHANGED <<exit_status, outcome>>
    /\ UNCHANGED <<parse_vars, cc_vars, fn_vars>>
    /\ UNCHANGED <<env, config, diff, parsed_files, reviewers, file_idx,
                   rev_idx, hunk_idx, completion, comments, rf_origin,
                   all_comments, origin, asked, calls, requests, post_calls,
                   raised, called>>

GetPRDetails ==
    /\ pc = "get_pr_details"
    /\ called' = called \cup {"get_pr_details"}
    /\ \E ok \in BOOLEAN :
        IF ok
        THEN /\ pc' = "get_diff"
             /\ UNCHANGED <<exit_status, outcome, raised>>
        ELSE Fatal("get_pr_details")
    /\ UNCHANGED <<parse_vars, cc_vars, fn_vars>>
    /\ UNCHANGED <<env, config, diff, parsed_files, reviewers, file_idx,
                   rev_idx, hunk_idx, completion, comments, rf_origin,
                   all_comments, origin, asked, calls, requests, post_calls>>

\* get_diff returns the text, or "" on a status other than 200
GetDiff ==
    /\ pc = "get_diff"
    /\ called' = called \cup {"get_diff"}
    /\ \/ \E d \in DiffTexts :
            /\ diff' = d
            /\ IF d = <<>>
               THEN Exit(0, "no_diff")
               ELSE /\ pc' = "parse_diff"
                    /\ UNCHANGED <<exit_status, outcome>>
            /\ UNCHANGED raised
       \/ Fatal("get_diff") /\ UNCHANGED diff
    /\ UNCHANGED <<parse_vars, cc_vars, fn_vars>>
    /\ UNCHANGED <<env, config, parsed_files, reviewers, file_idx,
                   rev_idx, hunk_idx, completion, comments, rf_origin,
                   all_comments, origin, asked, calls, requests, post_calls>>

ParseDiffCall ==
    /\ pc = "parse_diff"
    /\ called' = called \cup {"parse_diff"}
    /\ parsed_files' = ParseDiff(diff)
    /\ pc' = "get_reviewers"
    /\ UNCHANGED <<parse_vars, cc_vars, fn_vars>>
    /\ UNCHANGED <<env, config, diff, reviewers, file_idx,
                   rev_idx, hunk_idx, completion, comments, rf_origin,
                   all_comments, origin, asked, calls, requests, post_calls,
                   exit_status, outcome, raised>>

\* reviewer_classes holds "ai" alone
IsKnownReviewer(name) == name = "ai"

GetReviewers ==
    /\ pc = "get_reviewers"
    /\ called' = called \cup {"get_reviewers"}
    /\ LET made == SelectSeq(config.enabled_reviewers, IsKnownReviewer) IN
        /\ reviewers' = made
        /\ IF made = <<>>
           THEN Exit(0, "no_reviewers") /\ UNCHANGED file_idx
           ELSE /\ pc' = "files"
                /\ file_idx' = 1
                /\ UNCHANGED <<exit_status, outcome>>
    /\ UNCHANGED <<parse_vars, cc_vars, fn_vars>>
    /\ UNCHANGED <<env, config, diff, parsed_files,
                   rev_idx, hunk_idx, completion, comments, rf_origin,
                   all_comments, origin, asked, calls, requests, post_calls,
                   raised>>

\* the skip that forgets the deleted-file sentinel
IsSkippedPath_EmptyOnly(file_path) == file_path = <<>>

\* if not file_path or file_path == "/dev/null": continue
IsSkippedPath(file_path) == file_path = <<>> \/ file_path = DevNull

\* the loop that leaves before the last FileChange
NextFile_StopsEarly ==
    /\ pc = "files"
    /\ IF file_idx >= Len(parsed_files)
       THEN pc' = "post" /\ UNCHANGED <<file_idx, rev_idx>>
       ELSE IF IsSkippedPath(parsed_files[file_idx].path)
       THEN file_idx' = file_idx + 1 /\ UNCHANGED <<pc, rev_idx>>
       ELSE pc' = "reviewers" /\ rev_idx' = 1 /\ UNCHANGED file_idx
    /\ UNCHANGED <<parse_vars, cc_vars, fn_vars>>
    /\ UNCHANGED <<env, config, diff, parsed_files, reviewers,
                   hunk_idx, completion, comments, rf_origin,
                   all_comments, origin, asked, calls, requests, post_calls,
                   exit_status, outcome, raised, called>>

\* for file_change in parsed_files: the skip of line 97, or on to the reviewers
NextFile ==
    /\ pc = "files"
    /\ IF file_idx > Len(parsed_files)
       THEN pc' = "post" /\ UNCHANGED <<file_idx, rev_idx>>
       ELSE IF IsSkippedPath(parsed_files[file_idx].path)
       THEN file_idx' = file_idx + 1 /\ UNCHANGED <<pc, rev_idx>>
       ELSE pc' = "reviewers" /\ rev_idx' = 1 /\ UNCHANGED file_idx
    /\ UNCHANGED <<parse_vars, cc_vars, fn_vars>>
    /\ UNCHANGED <<env, config, diff, parsed_files, reviewers,
                   hunk_idx, completion, comments, rf_origin,
                   all_comments, origin, asked, calls, requests, post_calls,
                   exit_status, outcome, raised, called>>

\* for reviewer in reviewers: if reviewer.can_review_file(file_path): ...
NextReviewer ==
    /\ pc = "reviewers"
    /\ IF rev_idx > Len(reviewers)
       THEN /\ pc' = "files"
            /\ file_idx' = file_idx + 1
            /\ UNCHANGED <<rev_idx, hunk_idx, comments, rf_origin, asked,
                           calls>>
       ELSE LET file_path == parsed_files[file_idx].path IN
            /\ asked' = asked \cup {file_path}
            /\ IF CanReviewFile(file_path, config.exclude_patterns)
               THEN /\ calls' = Append(calls, [file |-> file_idx,
                                               reviewer |-> rev_idx,
                                               path |-> file_path])
                    /\ pc' = "hunks"
                    /\ hunk_idx' = 1
                    /\ comments' = <<>>
                    /\ rf_origin' = <<>>
                    /\ UNCHANGED <<file_idx, rev_idx>>
               ELSE /\ rev_idx' = rev_idx + 1
                    /\ UNCHANGED <<pc, file_idx, hunk_idx, comments,
                                   rf_origin, calls>>
    /\ UNCHANGED <<parse_vars, cc_vars, fn_vars>>
    /\ UNCHANGED <<env, config, diff, parsed_files, reviewers,
                   completion, all_comments, origin, requests, post_calls,
                   exit_status, outcome, raised, called>>

Hunks == parsed_files[file_idx].hunks

\* review_file: the head of the hunk loop, up to the completion request
NextHunk ==
    /\ pc = "hunks"
    /\ hunk_idx <= Len(Hunks)
    /\ IF Hunks[hunk_idx].lines = <<>>
       THEN /\ hunk_idx' = hunk_idx + 1
            /\ UNCHANGED <<pc, completion, requests, called>>
       ELSE /\ \E c \in Completions :
                /\ completion' = c
                /\ requests' = RequestsMade(c)
            /\ called' = called \cup {"completion"}
            /\ pc' = "completion"
            /\ UNCHANGED hunk_idx
    /\ UNCHANGED <<parse_vars, cc_vars, fn_vars>>
    /\ UNCHANGED <<env, config, diff, parsed_files, reviewers, file_idx,
                   rev_idx, comments, rf_origin,
                   all_comments, origin, asked, calls, post_calls,
                   exit_status, outcome, raised>>

\* review_file: the rest of the loop body, from what _get_openai_review
\* returned
ReviewHunkStep ==
    /\ pc = "completion"
    /\ LET got == ReviewHunk(parsed_files[file_idx].path,
                             Hunks[hunk_idx].lines,
                             GetOpenAIReview(completion))
       IN  IF got.raised
           THEN /\ Fatal("review_file")
                /\ UNCHANGED <<hunk_idx, comments, rf_origin>>
           ELSE /\ comments' =
                      comments \o
                      [k \in 1..Len(got.kept) |-> got.kept[k].comment]
                /\ rf_origin' =
                      rf_origin \o
                      [k \in 1..Len(got.kept) |->
                          <<hunk_idx, got.kept[k].finding>>]
                /\ hunk_idx' = hunk_idx + 1
                /\ pc' = "hunks"
                /\ UNCHANGED <<exit_status, outcome, raised>>
    /\ UNCHANGED <<parse_vars, cc_vars, fn_vars>>
    /\ UNCHANGED <<env, config, diff, parsed_files, reviewers, file_idx,
                   rev_idx, completion, requests, all_comments, origin,
                   asked, calls, post_calls, called>>

\* the aggregate with the new comments put in front
Extend_InFront(list, more) == more \o list

\* all_comments.extend(comments)
Extend(list, more) == list \o more

\* review_file returns; main extends all_comments
ReviewFileReturn ==
    /\ pc = "hunks"
    /\ hunk_idx > Len(Hunks)
    /\ all_comments' = Extend(all_comments, comments)
    /\ origin' =
          Extend(origin,
                 [k \in 1..Len(rf_origin) |->
                     <<file_idx, rev_idx, rf_origin[k][1], rf_origin[k][2]>>])
    /\ comments' = <<>>
    /\ rf_origin' = <<>>
    /\ completion' = NoCompletion
    /\ requests' = <<>>
    /\ rev_idx' = rev_idx + 1
    /\ pc' = "reviewers"
    /\ UNCHANGED <<parse_vars, cc_vars, fn_vars>>
    /\ UNCHANGED <<env, config, diff, parsed_files, reviewers, file_idx,
                   hunk_idx, asked, calls, post_calls, exit_status, outcome,
                   raised, called>>

\* the test that posts whatever the aggregate holds
ShouldPost_Always(aggregate) == TRUE

\* if all_comments:
ShouldPost(aggregate) == aggregate # <<>>

\* github.create_review_comment(...) or "No issues found"; in
\* create_review_comment, get_repo / get_pull are outside the try and
\* pr.create_review is inside it
PostOrNot ==
    /\ pc = "post"
    /\ IF ShouldPost(all_comments)
       THEN /\ post_calls' = Append(post_calls, all_comments)
            /\ called' = called \cup {"create_review_comment"}
            /\ \E how \in {"posted", "create_review_failed", "lookup_failed"} :
                IF how = "lookup_failed"
                THEN Fatal("create_review_comment")
                ELSE Exit(0, how) /\ UNCHANGED raised
       ELSE /\ Exit(0, "nothing_to_post")
            /\ UNCHANGED <<post_calls, called, raised>>
    /\ UNCHANGED <<parse_vars, cc_vars, fn_vars>>
    /\ UNCHANGED <<env, config, diff, parsed_files, reviewers, file_idx,
                   rev_idx, hunk_idx, completion, comments, rf_origin,
                   all_comments, origin, asked, calls, requests>>

MainLocalsInit ==
    /\ diff = <<>>
    /\ parsed_files = <<>>
    /\ reviewers = <<>>
    /\ file_idx = 0
    /\ rev_idx = 0
    /\ hunk_idx = 0
    /\ completion = NoCompletion
    /\ requests = <<>>
    /\ comments = <<>>
    /\ rf_origin = <<>>
    /\ all_comments = <<>>
    /\ origin = <<>>
    /\ asked = {}
    /\ calls = <<>>
    /\ post_calls = <<>>
    /\ called = {}
    /\ exit_status = -1
    /\ outcome = ""
    /\ raised = ""

(***************************************************************************)
(* The specifications: the parser alone, the reconciler alone, and a run   *)
(* of main().                                                              *)
(***************************************************************************)
ParseIdle ==
    /\ parse_pc = "idle"
    /\ diff_str = <<>>
    /\ line_idx = 0
    /\ files = <<>>
    /\ current_file = None
    /\ current_hunk = None

CcIdle ==
    /\ cc_pc = "idle"
    /\ source_length = 0
    /\ review = None
    /\ cc_outcome = ""
    /\ cc_comments = <<>>
    /\ cc_result = <<>>
    /\ cc_alone = <<>>
    /\ cc_count = 0

FnIdle ==
    /\ fn_pc = "idle"
    /\ fn_args = None
    /\ fn_results = <<>>

MainIdle ==
    /\ pc = "idle"
    /\ env = {}
    /\ config = [enabled_reviewers |-> <<>>, exclude_patterns |-> <<>>]
    /\ MainLocalsInit

InitParse ==
    /\ CcIdle
    /\ MainIdle
    /\ FnIdle
    /\ parse_pc = "loop"
    /\ diff_str \in BoundedSeq(LineAlphabet, MaxDiffLen)
    /\ line_idx = 0
    /\ files = <<>>
    /\ current_file = None
    /\ current_hunk = None

NextParse == ParseLoop \/ ParseReturn

SpecParse == InitParse /\ [][NextParse]_vars

InitReconcile ==
    /\ ParseIdle
    /\ MainIdle
    /\ FnIdle
    /\ cc_pc = "for"
    /\ source_length \in 1..MaxHunkLen
    /\ review = None
    /\ cc_outcome = ""
    /\ cc_comments = <<>>
    /\ cc_result = <<>>
    /\ cc_alone = <<>>
    /\ cc_count = 0

NextReconcile ==
    \/ CreateCommentIter
    \/ CreateCommentContinue
    \/ CreateCommentReturn

SpecReconcile == InitReconcile /\ [][NextReconcile]_vars


Init ==
    /\ ParseIdle
    /\ CcIdle
    /\ FnIdle
    /\ pc = "start"
    /\ env \in Environments
    /\ config \in [enabled_reviewers : EnabledConfigs,
                   exclude_patterns : ExcludeConfigs]
    /\ MainLocalsInit

Next ==
    \/ LoadConfigAndValidate
    \/ GetPRDetails
    \/ GetDiff
    \/ ParseDiffCall
    \/ GetReviewers
    \/ NextFile
    \/ NextReviewer
    \/ NextHunk
    \/ ReviewHunkStep
    \/ ReviewFileReturn
    \/ PostOrNot

Spec == Init /\ [][Next]_vars

(***************************************************************************)
(* The two transports of a completion result, applied to one logical       *)
(* batch of findings: the structured one (message.parsed.reviews, objects  *)
(* read by attribute), the free-text one (json.loads of the content,       *)
(* dictionaries) and a free-text content that json.loads rejects.  Each    *)
(* goes through _get_openai_review and the rest of review_file's loop      *)
(* body.                                                                   *)
(***************************************************************************)
\* the findings of a logical batch: line index and body present, priority
\* and issue category present or absent
LogicalFindings ==
    [lineNumber : {IntV(1), IntV(MaxHunkLen + 1)},
     reviewComment : {StrV(<<"t">>)},
     priority : {Missing, IntV(1), IntV(3)},
     issueType : {Missing, StrV(<<"B", "u", "g">>)}]

Shaped(shape, batch) ==
    [k \in 1..Len(batch) |->
        Finding(shape, batch[k].lineNumber, batch[k].reviewComment,
                batch[k].priority, batch[k].issueType)]

TransportOf(name, batch) ==
    CASE name = "structured" ->
            Completion(ParseGives(Shaped("model", batch)),
                       CreateFails("error"))
      [] name = "free_text" ->
            Completion(ParseFails("AttributeError"),
                       CreateGives(ReviewsDict(Shaped("dict", batch))))
      [] name = "unparsable" ->
            Completion(ParseFails("AttributeError"),
                       CreateFails("unparsable"))

HunkOf(length) == [k \in 1..length |-> Line(BODY, <<"+", "c">>)]

Normalize(name) ==
    /\ fn_pc = "args"
    /\ name \notin DOMAIN fn_results
    /\ fn_results' =
          [n \in DOMAIN fn_results \cup {name} |->
              IF n = name
              THEN ReviewHunk(PathPy, HunkOf(fn_args.length),
                              GetOpenAIReview(TransportOf(name, fn_args.batch)))
              ELSE fn_results[n]]
    /\ UNCHANGED <<fn_pc, fn_args>>
    /\ UNCHANGED <<parse_vars, cc_vars, main_vars>>

NormalizeStructured == Normalize("structured")

NormalizeFreeText == Normalize("free_text")

NormalizeUnparsable == Normalize("unparsable")

InitTransport ==
    /\ ParseIdle
    /\ CcIdle
    /\ MainIdle
    /\ fn_pc = "args"
    /\ fn_args \in [length : 1..MaxHunkLen,
                     batch : BoundedSeq(LogicalFindings, MaxFindings)]
    /\ fn_results = [n \in {} |-> None]

NextTransport ==
    \/ NormalizeStructured
    \/ NormalizeFreeText
    \/ NormalizeUnparsable

SpecTransport == InitTransport /\ [][NextTransport]_vars

(***************************************************************************)
(* _format_comment applied to drawn arguments, up to MaxCalls times over.  *)
(***************************************************************************)
Categories ==
    {T_bug, T_security, T_performance, T_style, T_documentation,
     T_maintenance, <<>>, <<"B", "u", "g">>, <<"z">>}

FormatCall ==
    /\ fn_pc = "args"
    /\ Len(fn_results) < MaxCalls
    /\ fn_results' =
          Append(fn_results,
                 FormatComment(fn_args.review_comment, fn_args.priority,
                               fn_args.issue_type))
    /\ UNCHANGED <<fn_pc, fn_args>>
    /\ UNCHANGED <<parse_vars, cc_vars, main_vars>>

InitFormat ==
    /\ ParseIdle
    /\ CcIdle
    /\ MainIdle
    /\ fn_pc = "args"
    /\ fn_args \in [review_comment : {StrV(<<"t">>), StrV(<<"u", " ", "v">>)},
                     priority : {IntV(1), IntV(2), IntV(3)},
                     issue_type : {StrV(c) : c \in Categories}]
    /\ fn_results = <<>>

NextFormat == FormatCall

SpecFormat == InitFormat /\ [][NextFormat]_vars

(***************************************************************************)
(* Claims about parse_diff.                                                *)
(***************************************************************************)
RECURSIVE FlatHunks(_)
FlatHunks(fs) ==
    IF fs = <<>> THEN <<>> ELSE fs[1].hunks \o FlatHunks(Tail(fs))

\* the '@@' lines that open a hunk: those with a 'diff --git' line before them
HeaderIdx(d) ==
    {i \in 1..Len(d) :
        /\ d[i].prefix = HUNK_HDR
        /\ \E j \in 1..(i - 1) : d[j].prefix = DIFF_GIT}

NthHeader(d, k) ==
    CHOOSE i \in HeaderIdx(d) : Cardinality({j \in HeaderIdx(d) : j <= i}) = k

\* the next '@@' header, the next 'diff --git' marker, or the end of input
NextBoundary(d, i) ==
    LET later == {j \in (i + 1)..Len(d) :
                     d[j].prefix \in {HUNK_HDR, DIFF_GIT}}
    IN  IF later = {} THEN Len(d) + 1
        ELSE CHOOSE j \in later : \A k \in later : j <= k

\* C1: every hunk parse_diff returns stores exactly the input lines between
\* its '@@' header and the next boundary (next '@@', next 'diff --git' or end
\* of input), in order and unmodified; no line after a later 'diff --git'
\* marker is appended to a hunk of the preceding file.
C1_HunkLineFidelity ==
    parse_pc = "done" =>
        LET hs == FlatHunks(files) IN
        /\ Len(hs) = Cardinality(HeaderIdx(diff_str))
        /\ \A k \in 1..Len(hs) :
              LET i == NthHeader(diff_str, k) IN
              /\ hs[k].header = diff_str[i]
              /\ hs[k].lines =
                    SubSeq(diff_str, i + 1, NextBoundary(diff_str, i) - 1)

(***************************************************************************)
(* Claims about _create_comment.                                           *)
(***************************************************************************)
IsObject(r) == r.shape \in {"model", "dict"}

NumericText(s) == s # <<>> /\ \A k \in 1..Len(s) : IsDigit(s[k])

\* the line index is missing, non-numeric, zero, negative or beyond the hunk
BadLineIndex(r, length) ==
    /\ IsObject(r)
    /\ \/ r.lineNumber.t \in {"missing", "null"}
       \/ r.lineNumber.t = "str" /\ ~NumericText(r.lineNumber.s)
       \/ r.lineNumber.t = "str" /\ NumericText(r.lineNumber.s)
             /\ DecimalValue(r.lineNumber.s, 0) \notin 1..length
       \/ r.lineNumber.t = "int" /\ r.lineNumber.i \notin 1..length

ValidLineIndex(r, length) ==
    IsObject(r) /\ r.lineNumber.t = "int" /\ r.lineNumber.i \in 1..length

EmptyBody(r) ==
    /\ IsObject(r)
    /\ \/ r.reviewComment.t \in {"missing", "null"}
       \/ r.reviewComment.t = "str" /\ r.reviewComment.s = <<>>

NonEmptyBody(r) ==
    IsObject(r) /\ r.reviewComment.t = "str" /\ r.reviewComment.s # <<>>

Iterated == cc_pc \in {"iterated", "raised"}

\* C2: every comment _create_comment builds or returns has an integer
\* position p with 1 <= p <= the hunk's line count, and a finding whose line
\* index is missing, non-numeric, 0, negative or greater than the line count
\* produces no comment.
C2_PositionWithinHunk ==
    /\ \A k \in 1..Len(cc_comments) :
          cc_comments[k].position \in 1..source_length
    /\ \A k \in 1..Len(cc_result) :
          cc_result[k].position \in 1..source_length
    /\ (Iterated /\ BadLineIndex(review, source_length))
          => cc_outcome # "comment"

\* a finding one past the end of the hunk was skipped after a sibling
\* produced a comment
C2_Witness ==
    /\ cc_pc = "iterated"
    /\ review.lineNumber = IntV(source_length + 1)
    /\ NonEmptyBody(review)
    /\ cc_outcome = "skip"
    /\ cc_comments # <<>>

\* what the call has delivered, or will deliver if the batch ends here
Delivered ==
    IF cc_pc = "raised" THEN <<>>
    ELSE IF cc_pc = "returned" THEN cc_result
    ELSE cc_comments

\* C4: the list a batch returns is the in-order concatenation of what each
\* finding produces when reconciled alone, and a finding with a bad line
\* index or an empty body, at any position, leaves the comments of the other
\* findings of the batch as they are.
C4_FindingsIndependent ==
    (\/ cc_pc = "returned"
     \/ Iterated /\ (BadLineIndex(review, source_length) \/ EmptyBody(review)))
        => Delivered = cc_alone

\* C5: a finding whose line index is within 1..line count and whose body is
\* non-empty yields exactly one comment with the file path, that index as
\* position and the banner followed by the body, whatever its priority and
\* issue category.
C5_ValidFindingYieldsComment ==
    (Iterated /\ ValidLineIndex(review, source_length) /\ NonEmptyBody(review))
        => /\ cc_outcome = "comment"
           /\ cc_comments # <<>>
           /\ LET c == cc_comments[Len(cc_comments)] IN
               /\ c.path = PathPy
               /\ c.position = review.lineNumber.i
               /\ c.body.text = review.reviewComment.s

(***************************************************************************)
(* Claims about review_file and main().                                    *)
(***************************************************************************)
\* C3: review_file never raises, whatever the completion collaborator
\* returns or raises: no exception of review_file reaches main().
C3_ReviewFileNeverRaises == raised # "review_file"

\* the completion call failed: a transport error or timeout of the request
\* that was made last, or free-text JSON that does not parse
CompletionFailed(c) ==
    \/ c.parse.kind = "error"
    \/ /\ c.parse.kind \in {"parsed_none", "AttributeError", "ImportError"}
       /\ c.create.kind \in {"error", "unparsable"}

\* C6: a failed completion call for one hunk adds no comment for that hunk
\* and nothing else: review_file keeps the comments of the sibling hunks and
\* goes on to the next hunk, and the run goes on.
C6_FailedHunkContinues ==
    [][(pc = "completion" /\ CompletionFailed(completion))
          => /\ pc' = "hunks"
             /\ hunk_idx' = hunk_idx + 1
             /\ comments' = comments
             /\ all_comments' = all_comments
             /\ exit_status' = -1
             /\ raised' = ""]_vars

\* the last hunk of a file failed and the comments of a sibling hunk are
\* still there
C6_Witness ==
    /\ pc = "hunks"
    /\ CompletionFailed(completion)
    /\ hunk_idx = Len(Hunks) + 1
    /\ hunk_idx > 2
    /\ comments # <<>>

Excluded(file_path) ==
    \E k \in 1..Len(config.exclude_patterns) :
        Fnmatch(file_path, config.exclude_patterns[k])

\* C7: review_file is never called with a path that matches one of the
\* configured exclude patterns.
C7_ExcludedNeverReviewed ==
    \A k \in 1..Len(calls) : ~Excluded(calls[k].path)

\* an excluded file was passed over and another file was reviewed
C7_Witness ==
    /\ pc = "exit"
    /\ calls # <<>>
    /\ \E f \in 1..Len(parsed_files) :
          /\ parsed_files[f].path \in asked
          /\ Excluded(parsed_files[f].path)

\* C8: neither can_review_file nor review_file is called for a FileChange
\* whose path is empty or '/dev/null', and no comment of the aggregate comes
\* from such a FileChange.
C8_DeletedFileSkipped ==
    /\ \A p \in asked : p # <<>> /\ p # DevNull
    /\ \A k \in 1..Len(calls) :
          parsed_files[calls[k].file].path \notin {<<>>, DevNull}
    /\ \A k \in 1..Len(origin) :
          parsed_files[origin[k][1]].path \notin {<<>>, DevNull}
    /\ \A k \in 1..Len(all_comments) :
          all_comments[k].path \notin {<<>>, DevNull}

\* a diff with a '/dev/null' file and an empty-path file, and comments of
\* other files posted
C8_Witness ==
    /\ pc = "exit"
    /\ outcome = "posted"
    /\ \E f \in 1..Len(parsed_files) :
          parsed_files[f].path \in {<<>>, DevNull}

LexLess(a, b) ==
    \E k \in 1..Len(a) :
        /\ a[k] < b[k]
        /\ \A j \in 1..(k - 1) : a[j] = b[j]

\* C9: the aggregate is ordered by (file, reviewer, hunk, finding), the
\* review_file calls are issued in (file, reviewer) order, and the list given
\* to the posting collaborator is that aggregate.
C9_AggregateOrder ==
    /\ Len(origin) = Len(all_comments)
    /\ \A i \in 1..Len(origin) : \A j \in (i + 1)..Len(origin) :
          LexLess(origin[i], origin[j])
    /\ \A i \in 1..Len(origin) :
          all_comments[i].path = parsed_files[origin[i][1]].path
    /\ \A i \in 1..Len(calls) : \A j \in (i + 1)..Len(calls) :
          LexLess(<<calls[i].file, calls[i].reviewer>>,
                  <<calls[j].file, calls[j].reviewer>>)
    /\ \A k \in 1..Len(post_calls) : post_calls[k] = all_comments

\* a posted aggregate with comments of two files, of two reviewers on one
\* file, of two hunks in one call and of two findings in one hunk
C9_Witness ==
    /\ pc = "exit"
    /\ outcome = "posted"
    /\ \E i, j \in 1..Len(origin) : origin[i][1] < origin[j][1]
    /\ \E i, j \in 1..Len(origin) :
          origin[i][1] = origin[j][1] /\ origin[i][2] < origin[j][2]
    /\ \E i, j \in 1..Len(origin) :
          /\ SubSeq(origin[i], 1, 2) = SubSeq(origin[j], 1, 2)
          /\ origin[i][3] < origin[j][3]
    /\ \E i, j \in 1..Len(origin) :
          /\ SubSeq(origin[i], 1, 3) = SubSeq(origin[j], 1, 3)
          /\ origin[i][4] < origin[j][4]

\* C10: with an empty aggregate the posting collaborator is never called,
\* and a run that reaches its end with an empty aggregate (empty diff, no
\* reviewers, no reviewable file, every finding rejected) ends with status 0.
C10_NothingToPost ==
    /\ all_comments = <<>> => post_calls = <<>>
    /\ (pc = "exit" /\ all_comments = <<>> /\ raised = ""
           /\ outcome # "missing_config")
          => exit_status = 0 /\ "create_review_comment" \notin called

\* a run whose reviewers were called and whose findings were all rejected
C10_Witness ==
    /\ pc = "exit"
    /\ exit_status = 0
    /\ all_comments = <<>>
    /\ calls # <<>>
    /\ "completion" \in called

(***************************************************************************)
(* Claims about the end of a run.                                          *)
(***************************************************************************)
\* C11: a run whose posting failed (create_review raised or was answered
\* with a non-2xx status) ends with a non-zero exit status, and a run ends
\* with status 0 only if it posted its comments or had nothing to post.
C11_PostFailureIsNonZero ==
    pc = "exit" =>
        /\ outcome = "create_review_failed" => exit_status # 0
        /\ exit_status = 0 =>
              outcome \in {"posted", "nothing_to_post", "no_diff",
                           "no_reviewers"}

\* C12: the posting collaborator is called at most once, only when the run
\* is over and every eligible file has been given to every applicable
\* reviewer, with the whole aggregate (each comment a body, a path and a
\* position), and no comment is in the posted list twice.
C12_PostOnceAfterAll ==
    /\ Len(post_calls) <= 1
    /\ pc \in {"files", "reviewers", "hunks", "completion"}
          => post_calls = <<>>
    /\ post_calls # <<>> =>
          /\ pc = "exit"
          /\ post_calls[1] = all_comments
          /\ \A k \in 1..Len(post_calls[1]) :
                DOMAIN post_calls[1][k] = {"body", "path", "position"}
          /\ \A f \in 1..Len(parsed_files) : \A r \in 1..Len(reviewers) :
                (/\ parsed_files[f].path \notin {<<>>, DevNull}
                 /\ ~Excluded(parsed_files[f].path))
                    => \E k \in 1..Len(calls) :
                          calls[k].file = f /\ calls[k].reviewer = r
          /\ Len(origin) = Len(post_calls[1])
          /\ \A i, j \in 1..Len(origin) : origin[i] = origin[j] => i = j

\* comments were posted in a run whose last file was reviewed by two
\* reviewers
C12_Witness ==
    /\ pc = "exit"
    /\ Len(post_calls) = 1
    /\ Len(post_calls[1]) >= 2
    /\ Len(reviewers) = 2
    /\ \E k \in 1..Len(calls) :
          calls[k].file = Len(parsed_files) /\ calls[k].reviewer = 2

(***************************************************************************)
(* Claims about the start of a run.                                        *)
(***************************************************************************)
AIEnabled ==
    \E k \in 1..Len(config.enabled_reviewers) :
        config.enabled_reviewers[k] = "ai"

\* a required variable is not set: GITHUB_TOKEN, or one of the endpoint, key
\* and deployment of the completion API when the 'ai' reviewer is enabled
ConfigMissing ==
    \/ "GITHUB_TOKEN" \notin env
    \/ /\ AIEnabled
       /\ \E v \in {"AZURE_OPENAI_ENDPOINT", "AZURE_OPENAI_KEY",
                    "AZURE_OPENAI_DEPLOYMENT"} : v \notin env

\* C13: with a required configuration variable missing, main() exits with a
\* non-zero status and none of the PR-details fetch, the diff fetch, the
\* parser, the reviewer construction, a completion call or the posting call
\* takes place.
C13_MissingConfigIsFatalFirst ==
    ConfigMissing =>
        /\ called = {}
        /\ calls = <<>>
        /\ requests = <<>>
        /\ post_calls = <<>>
        /\ pc \in {"start", "exit"}
        /\ pc = "exit" => exit_status = 1 /\ outcome = "missing_config"

\* the run ended at the check with the 'ai' reviewer enabled, the token set
\* and the deployment name missing
C13_Witness ==
    /\ pc = "exit"
    /\ outcome = "missing_config"
    /\ AIEnabled
    /\ "GITHUB_TOKEN" \in env
    /\ "AZURE_OPENAI_DEPLOYMENT" \notin env

(***************************************************************************)
(* More claims about parse_diff.                                           *)
(***************************************************************************)
\* the positions of the 'diff --git' lines
MarkerIdx(d) == {i \in 1..Len(d) : d[i].prefix = DIFF_GIT}

NthMarker(d, k) ==
    CHOOSE i \in MarkerIdx(d) : Cardinality({j \in MarkerIdx(d) : j <= i}) = k

\* the end of the file section that starts at marker i
SectionEnd(d, i) ==
    LET later == {j \in MarkerIdx(d) : j > i} IN
    IF later = {} THEN Len(d)
    ELSE (CHOOSE j \in later : \A k \in later : j <= k) - 1

\* C14: parse_diff returns one FileChange per 'diff --git' line, in the order
\* of those lines: the k-th entry holds one hunk per '@@' line of the k-th
\* file section, also when it has no path or no hunk.
C14_OneFileChangePerMarker ==
    parse_pc = "done" =>
        /\ Len(files) = Cardinality(MarkerIdx(diff_str))
        /\ \A k \in 1..Len(files) :
              LET i == NthMarker(diff_str, k) IN
              Len(files[k].hunks) =
                  Cardinality({j \in i..SectionEnd(diff_str, i) :
                                  diff_str[j].prefix = HUNK_HDR})

\* three markers gave three entries: one with a hunk, one with neither path
\* nor hunk, one with a path and no hunk
C14_Witness ==
    /\ parse_pc = "done"
    /\ Cardinality(MarkerIdx(diff_str)) = 3
    /\ Len(files) = 3
    /\ \E k \in 1..3 : files[k].hunks # <<>>
    /\ \E k \in 1..3 : files[k].path = <<>> /\ files[k].hunks = <<>>
    /\ \E k \in 1..3 : files[k].path # <<>> /\ files[k].hunks = <<>>

(***************************************************************************)
(* More claims about _create_comment.                                      *)
(***************************************************************************)
\* C15: a finding whose body is empty (absent, null or "") produces no
\* comment, whatever its line index, priority and issue category.
C15_EmptyBodyNoComment ==
    /\ (Iterated /\ EmptyBody(review))
          => cc_outcome # "comment" /\ Alone(PathPy, source_length, review) = <<>>
    /\ \A k \in 1..Len(cc_comments) : cc_comments[k].body.text # <<>>
    /\ \A k \in 1..Len(cc_result) : cc_result[k].body.text # <<>>

\* a finding with an in-range line index, a known priority and an empty
\* string for a body was skipped
C15_Witness ==
    /\ cc_pc = "iterated"
    /\ ValidLineIndex(review, source_length)
    /\ review.reviewComment = StrV(<<>>)
    /\ review.priority = IntV(1)
    /\ review.issueType.t = "str"
    /\ cc_outcome = "skip"

(***************************************************************************)
(* Claims about the transports of a completion result.                     *)
(***************************************************************************)
\* C16: the same logical batch of findings gives the same comment sequence
\* (and the same failure, if any) whether it arrives as parsed objects or as
\* dictionaries out of free-text JSON, and free text that does not parse
\* gives no finding and no comment.
C16_TransportsNormalizeAlike ==
    /\ {"structured", "free_text"} \subseteq DOMAIN fn_results
          => fn_results["structured"] = fn_results["free_text"]
    /\ "unparsable" \in DOMAIN fn_results
          => /\ ~fn_results["unparsable"].raised
             /\ fn_results["unparsable"].kept = <<>>

\* a batch of two findings, one without priority and category, gave one
\* comment on both transports, and the unparsable text gave none
C16_Witness ==
    /\ fn_pc = "args"
    /\ DOMAIN fn_results = {"structured", "free_text", "unparsable"}
    /\ Len(fn_args.batch) = 2
    /\ \E k \in 1..2 :
          fn_args.batch[k].priority = Missing
              /\ fn_args.batch[k].issueType = Missing
    /\ Len(fn_results["structured"].kept) = 1
    /\ Len(fn_results["free_text"].kept) = 1

(***************************************************************************)
(* Claims about _format_comment.                                           *)
(***************************************************************************)
\* the banner the tables of the claim give a tier and a category
BannerOf(tier, cat) ==
    [template |-> IF tier = 1 THEN "details open h3" ELSE "details h4",
     emoji |->
        CASE cat = <<"b", "u", "g">> -> "U+1F41B"
          [] cat = <<"s", "e", "c", "u", "r", "i", "t", "y">> -> "U+1F512"
          [] cat = <<"p", "e", "r", "f", "o", "r", "m", "a", "n", "c", "e">>
                -> "U+26A1"
          [] cat = <<"s", "t", "y", "l", "e">> -> "U+1F3A8"
          [] cat = <<"d", "o", "c", "u", "m", "e", "n", "t", "a", "t", "i",
                     "o", "n">> -> "U+1F4DD"
          [] cat = <<"m", "a", "i", "n", "t", "e", "n", "a", "n", "c", "e">>
                -> "U+1F527"
          [] OTHER -> "U+2757",
     color_tag |->
        IF tier = 1
        THEN CASE cat = <<"b", "u", "g">> -> "U+1F534 CRITICAL BUG"
               [] cat = <<"s", "e", "c", "u", "r", "i", "t", "y">>
                     -> "U+1F534 SECURITY VULNERABILITY"
               [] cat = <<"p", "e", "r", "f", "o", "r", "m", "a", "n", "c",
                          "e">> -> "U+1F534 CRITICAL PERFORMANCE"
               [] cat = <<"s", "t", "y", "l", "e">>
                     -> "U+1F534 CRITICAL STYLE ISSUE"
               [] cat = <<"d", "o", "c", "u", "m", "e", "n", "t", "a", "t",
                          "i", "o", "n">> -> "U+1F534 CRITICAL DOCUMENTATION"
               [] cat = <<"m", "a", "i", "n", "t", "e", "n", "a", "n", "c",
                          "e">> -> "U+1F534 CRITICAL MAINTENANCE"
               [] OTHER -> "U+1F534 CRITICAL ISSUE"
        ELSE CASE cat = <<"b", "u", "g">> -> "U+1F7E0 MINOR BUG"
               [] cat = <<"s", "e", "c", "u", "r", "i", "t", "y">>
                     -> "U+1F7E0 SECURITY IMPROVEMENT"
               [] cat = <<"p", "e", "r", "f", "o", "r", "m", "a", "n", "c",
                          "e">> -> "U+1F7E0 PERFORMANCE IMPROVEMENT"
               [] cat = <<"s", "t", "y", "l", "e">>
                     -> "U+1F7E0 STYLE SUGGESTION"
               [] cat = <<"d", "o", "c", "u", "m", "e", "n", "t", "a", "t",
                          "i", "o", "n">> -> "U+1F7E0 DOCUMENTATION SUGGESTION"
               [] cat = <<"m", "a", "i", "n", "t", "e", "n", "a", "n", "c",
                          "e">> -> "U+1F7E0 MAINTENANCE IMPROVEMENT"
               [] OTHER -> "U+1F7E0 IMPROVEMENT SUGGESTION"]

\* every call made so far returned the banner of (tier, cat) followed by the
\* body unchanged, and all calls returned the same
FormatsAs(cat) ==
    fn_args.priority.i \in {1, 2} =>
        \A k \in 1..Len(fn_results) :
            /\ fn_results[k].exc = ""
            /\ fn_results[k].body.header = BannerOf(fn_args.priority.i, cat)
            /\ fn_results[k].body.text = fn_args.review_comment.s
            /\ fn_results[k] = fn_results[1]

\* the category with its capital letters made small
SmallLetters(s) ==
    [k \in 1..Len(s) |->
        CASE s[k] = "B" -> "b" [] s[k] = "U" -> "u" [] s[k] = "G" -> "g"
          [] s[k] = "S" -> "s" [] OTHER -> s[k]]

\* C17 as stated: for priority 1 or 2 the result is the banner the tables
\* give the category string as it is written (the generic banner of the tier
\* for every string that is none of the known categories), followed by the
\* body unchanged, and the same at every call.
C17_AsStated == FormatsAs(fn_args.issue_type.s)

\* C17, amended: for priority 1 or 2 the result is the banner the tables
\* give the category string once it is put in lower case (the generic banner
\* of the tier for every string that is then none of the known categories),
\* followed by the body unchanged, and the same at every call.
C17_BannerByTierAndCategory == FormatsAs(SmallLetters(fn_args.issue_type.s))

\* an unknown category was formatted MaxCalls times in tier 2
C17_Witness ==
    /\ fn_pc = "args"
    /\ Len(fn_results) = MaxCalls
    /\ fn_args.priority = IntV(2)
    /\ fn_args.issue_type = StrV(<<"z">>)
    /\ fn_results[1].exc = ""
    /\ fn_results[1].body.header.color_tag = "U+1F7E0 IMPROVEMENT SUGGESTION"

(***************************************************************************)
(* Claims about the path and the preamble in parse_diff.                   *)
(***************************************************************************)
\* the lines of the file section of marker i that start with the prefix
InSection(d, i, prefix) ==
    {j \in i..SectionEnd(d, i) : d[j].prefix = prefix}

\* C18: a file section that holds both a '--- a/OLD' line and a '+++ b/NEW'
\* line gives a FileChange whose path is NEW, the text after '+++ b/',
\* whichever of the two lines comes first.
C18_NewPathWins ==
    parse_pc = "done" =>
        \A k \in 1..Cardinality(MarkerIdx(diff_str)) :
            LET i == NthMarker(diff_str, k) IN
            (InSection(diff_str, i, OLD_PATH) # {}
                /\ InSection(diff_str, i, NEW_PATH) # {})
                => /\ k <= Len(files)
                   /\ \E j \in InSection(diff_str, i, NEW_PATH) :
                         files[k].path = diff_str[j].rest

\* the input from its first 'diff --git' line on
FromFirstMarker(d) ==
    IF MarkerIdx(d) = {} THEN <<>>
    ELSE SubSeq(d, NthMarker(d, 1), Len(d))

\* C19: without a 'diff --git' line parse_diff returns the empty list, and
\* the lines before the first 'diff --git' line are discarded: while only
\* such lines were read no file is open, no hunk is open and nothing is
\* stored, and the result is that of the input without them.
C19_PreambleDiscarded ==
    /\ (\A j \in 1..line_idx : diff_str[j].prefix # DIFF_GIT)
          => files = <<>> /\ current_file = None /\ current_hunk = None
    /\ parse_pc = "done"
          => /\ MarkerIdx(diff_str) = {} => files = <<>>
             /\ files = ParseDiff(FromFirstMarker(diff_str))

\* a hunk header, a path line and a body line came before the only
\* 'diff --git' line, and the one FileChange has no path and no hunk
C19_Witness ==
    /\ parse_pc = "done"
    /\ MarkerIdx(diff_str) = {4}
    /\ \E j \in 1..3 : diff_str[j].prefix = HUNK_HDR
    /\ \E j \in 1..3 : diff_str[j].prefix = NEW_PATH
    /\ \E j \in 1..3 : diff_str[j].prefix = BODY
    /\ files = <<FileChange(<<>>, <<>>)>>

(***************************************************************************)
(* Claims about the completion requests of review_file.                    *)
(***************************************************************************)
\* the first request raised AttributeError or ImportError; a structured
\* answer without a parsed payload raises AttributeError
FirstRaisedAttributeOrImport(c) ==
    c.parse.kind \in {"AttributeError", "ImportError", "parsed_none"}

\* C20: in review_file a hunk without lines is passed over with no
\* completion request; a hunk with lines gets the structured request first
\* and, only if that raised AttributeError or ImportError, the free-text
\* request after it: one or two requests in all.  Any other failure of the
\* first request gives no finding and no second request.
C20_RequestsPerHunk ==
    [][/\ (pc = "hunks" /\ hunk_idx <= Len(Hunks))
            => IF Hunks[hunk_idx].lines = <<>>
               THEN /\ pc' = "hunks"
                    /\ hunk_idx' = hunk_idx + 1
                    /\ requests' = requests
                    /\ called' = called
                    /\ comments' = comments
               ELSE /\ pc' = "completion"
                    /\ requests' = IF FirstRaisedAttributeOrImport(completion')
                                   THEN <<"parse", "create">>
                                   ELSE <<"parse">>
       /\ (pc = "completion" /\ completion.parse.kind = "error")
            => /\ requests = <<"parse">>
               /\ requests' = requests
               /\ comments' = comments
               /\ pc' = "hunks"]_vars

\* the only hunk of the first file has no line and was passed over, and
\* the first hunk of the second file got both requests
C20_Witness ==
    /\ pc = "completion"
    /\ file_idx = 2
    /\ hunk_idx = 1
    /\ \E k \in 1..Len(calls) : calls[k].file = 1
    /\ Len(parsed_files[1].hunks) = 1
    /\ parsed_files[1].hunks[1].lines = <<>>
    /\ requests = <<"parse", "create">>
    /\ completion.parse.kind = "parsed_none"

====
